---- MODULE Spec2Model ----
(***************************************************************************)
(* The server side of one SMTP session of mailpopbox (smtp/conn.go): the   *)
(* session loop of AcceptConnection and the command handlers it calls.     *)
(*                                                                         *)
(* Strings are sequences of one-character strings, so that the scanning,   *)
(* slicing and case folding the handlers do on the command line are        *)
(* computed the way the code computes them.  Indices and slices follow Go: *)
(* they count from 0 and s[a:b] excludes b.                                *)
(***************************************************************************)
EXTENDS Integers, Sequences, FiniteSets, TLC

\* Bounds of the model.
\* At most MaxRcpt recipients are accumulated in one transaction.
MaxRcpt == 2
\* At most MaxTLS TLS handshakes complete on one connection.
MaxTLS == 2

----------------------------------------------------------------------------
\* Strings.

UpperAlpha == <<"A", "B", "C", "D", "E", "F", "G", "H", "I", "J", "K", "L", "M", "N", "O", "P", "Q", "R", "S", "T", "U", "V", "W", "X", "Y", "Z">>
LowerAlpha == <<"a", "b", "c", "d", "e", "f", "g", "h", "i", "j", "k", "l", "m", "n", "o", "p", "q", "r", "s", "t", "u", "v", "w", "x", "y", "z">>
Digits == {"0", "1", "2", "3", "4", "5", "6", "7", "8", "9"}

Uppers == {UpperAlpha[i] : i \in 1..Len(UpperAlpha)}
Lowers == {LowerAlpha[i] : i \in 1..Len(LowerAlpha)}
UpperOf == [c \in Lowers |-> UpperAlpha[CHOOSE i \in 1..Len(LowerAlpha) : LowerAlpha[i] = c]]
LowerOf == [c \in Uppers |-> LowerAlpha[CHOOSE i \in 1..Len(UpperAlpha) : UpperAlpha[i] = c]]

ToUpperC(c) == IF c \in Lowers THEN UpperOf[c] ELSE c
ToLowerC(c) == IF c \in Uppers THEN LowerOf[c] ELSE c

\* strings.ToUpper, strings.ToLower
ToUpper(s) == [i \in 1..Len(s) |-> ToUpperC(s[i])]
ToLower(s) == [i \in 1..Len(s) |-> ToLowerC(s[i])]

\* The Go slice s[a:b].
Slice(s, a, b) == SubSeq(s, a + 1, b)

SetMin(S) == CHOOSE x \in S : \A y \in S : x <= y
SetMax(S) == CHOOSE x \in S : \A y \in S : y <= x

\* strings.Index, bytes.Index: where sub first occurs in s, -1 when nowhere.
Index(s, sub) ==
    LET at == {i \in 0..(Len(s) - Len(sub)) : Slice(s, i, i + Len(sub)) = sub}
    IN  IF at = {} THEN -1 ELSE SetMin(at)

\* strings.LastIndex, bytes.LastIndexByte
LastIndex(s, sub) ==
    LET at == {i \in 0..(Len(s) - Len(sub)) : Slice(s, i, i + Len(sub)) = sub}
    IN  IF at = {} THEN -1 ELSE SetMax(at)

\* strings.HasPrefix, bytes.HasPrefix
HasPrefix(s, p) == Len(s) >= Len(p) /\ Slice(s, 0, Len(p)) = p

\* strings.Split(s, sep) for a one-character sep: every piece, empty ones too.
RECURSIVE Split(_, _)
Split(s, sep) ==
    LET i == Index(s, <<sep>>)
    IN  IF i = -1 THEN <<s>>
        ELSE <<Slice(s, 0, i)>> \o Split(Slice(s, i + 1, Len(s)), sep)

\* bytes.SplitAfter(s, sep) for a one-character sep: each piece keeps its sep.
RECURSIVE SplitAfter(_, _)
SplitAfter(s, sep) ==
    LET i == Index(s, <<sep>>)
    IN  IF i = -1 THEN <<s>>
        ELSE <<Slice(s, 0, i + 1)>> \o SplitAfter(Slice(s, i + 1, Len(s)), sep)

\* The space-separated operands fmt.Sscanf reads for a run of %s verbs.
RECURSIVE Fields(_)
Fields(s) ==
    IF s = <<>> THEN <<>>
    ELSE IF s[1] = " " THEN Fields(Tail(s))
    ELSE LET i == Index(s, <<" ">>)
         IN  IF i = -1 THEN <<s>>
             ELSE <<Slice(s, 0, i)>> \o Fields(Slice(s, i, Len(s)))

\* Concatenation of a sequence of strings.
RECURSIVE Concat(_)
Concat(ss) == IF ss = <<>> THEN <<>> ELSE Head(ss) \o Concat(Tail(ss))

----------------------------------------------------------------------------
\* String literals of the code.

S_HELO == <<"H", "E", "L", "O">>
S_EHLO == <<"E", "H", "L", "O">>
S_QUIT == <<"Q", "U", "I", "T">>
S_STARTTLS == <<"S", "T", "A", "R", "T", "T", "L", "S">>
S_AUTH == <<"A", "U", "T", "H">>
S_MAIL == <<"M", "A", "I", "L">>
S_RCPT == <<"R", "C", "P", "T">>
S_DATA == <<"D", "A", "T", "A">>
S_RSET == <<"R", "S", "E", "T">>
S_VRFY == <<"V", "R", "F", "Y">>
S_EXPN == <<"E", "X", "P", "N">>
S_NOOP == <<"N", "O", "O", "P">>
S_HELP == <<"H", "E", "L", "P">>
S_PLAIN == <<"P", "L", "A", "I", "N">>
S_MAILFROM == <<"M", "A", "I", "L", " ", "F", "R", "O", "M", ":">>
S_RCPTTO == <<"R", "C", "P", "T", " ", "T", "O", ":">>
S_From == <<"F", "r", "o", "m", ":">>
S_Subject == <<"S", "u", "b", "j", "e", "c", "t", ":">>
S_SendAsOpen == <<"[", "s", "e", "n", "d", "a", "s", ":">>

----------------------------------------------------------------------------
\* Values.

\* type state
stateNew == "New"
stateInitial == "Initial"
stateMail == "Mail"
stateRecipient == "Recipient"

\* type delivery
deliverUnknown == "unknown"
deliverInbound == "inbound"
deliverOutbound == "outbound"

\* A ReplyLine{Code, Message}.
Reply(code, msg) == [code |-> code, msg |-> msg]

\* The canonical replies of the package.
ReplyOK == Reply(250, "OK")
ReplyAuthOK == Reply(235, "auth success")
ReplyBadSyntax == Reply(501, "syntax error")
ReplyBadSequence == Reply(503, "bad sequence of commands")
ReplyBadMailbox == Reply(550, "mailbox unavailable")
\* No reply: the nil *ReplyLine of DeliverMessage, and the unused field of a call.
NoReply == Reply(0, "")

\* A *mail.Address: nil, or an address.
NilAddr == [nil |-> TRUE, Address |-> <<>>]
Addr(a) == [nil |-> FALSE, Address |-> a]

\* The part of an address after its last "@", empty when it has none.
DomainForAddressString(address) ==
    LET domainIdx == LastIndex(address, <<"@">>)
    IN  IF domainIdx = -1 THEN <<>> ELSE Slice(address, domainIdx + 1, Len(address))

DomainForAddress(addr) == DomainForAddressString(addr.Address)

\* The characters of a dot-atom, as far as the lines here use them.
AText == Uppers \cup Lowers \cup Digits \cup {".", "-", "_"}

\* mail.ParseAddress on the paths of the lines here, "<local@domain>" or a bare
\* "local@domain" after optional spaces: the address, or nil with an error.
ParseAddress(s) ==
    LET lead == SetMin({k \in 0..Len(s) : k = Len(s) \/ s[k + 1] # " "})
        t == Slice(s, lead, Len(s))
        bracketed == Len(t) >= 2 /\ t[1] = "<" /\ t[Len(t)] = ">"
        spec == IF bracketed THEN Slice(t, 1, Len(t) - 1) ELSE t
        at == Index(spec, <<"@">>)
        local == Slice(spec, 0, at)
        domain == Slice(spec, at + 1, Len(spec))
    IN  IF /\ at # -1
           /\ local # <<>>
           /\ domain # <<>>
           /\ \A i \in 1..Len(local) : local[i] \in AText
           /\ \A i \in 1..Len(domain) : domain[i] \in AText
        THEN Addr(local \o <<"@">> \o domain)
        ELSE NilAddr

\* base64.StdEncoding.DecodeString on the payloads a client sends here; NUL is
\* the zero byte.  Anything else is not base64.
B64_Alice == <<"A", "G", "F", "A", "b", "A", "B", "w">>
Plain_Alice == <<"NUL", "a", "@", "l", "NUL", "p">>
B64_NoAuthc == <<"A", "A", "B", "w">>
Plain_NoAuthc == <<"NUL", "NUL", "p">>
B64_TwoParts == <<"Y", "Q", "B", "w">>
Plain_TwoParts == <<"a", "NUL", "p">>
B64Table == {<<B64_Alice, Plain_Alice>>, <<B64_NoAuthc, Plain_NoAuthc>>,
             <<B64_TwoParts, Plain_TwoParts>>}
B64Valid(s) == \E p \in B64Table : p[1] = s
B64Decode(s) == (CHOOSE p \in B64Table : p[1] = s)[2]

\* The SendAsSubject pattern, (?i)\[sendas:\s*([a-zA-Z0-9\.\-_]+)\], matched at
\* offset i of header h: <<start, end, user start, user end>>, or <<>>.
SendAsMatchAt(h, i) ==
    LET open == i + Len(S_SendAsOpen)
        user == SetMin({k \in open..Len(h) : k = Len(h) \/ h[k + 1] \notin {" ", "\n"}})
        stop == SetMin({k \in user..Len(h) : k = Len(h) \/ h[k + 1] \notin AText})
    IN  IF /\ open <= Len(h)
           /\ ToLower(Slice(h, i, open)) = S_SendAsOpen
           /\ stop > user
           /\ stop < Len(h)
           /\ h[stop + 1] = "]"
        THEN <<i, stop + 1, user, stop>>
        ELSE <<>>

\* SendAsSubject.FindSubmatchIndex(h): the leftmost match, <<>> for nil.
FindSubmatchIndex(h) ==
    LET at == {i \in 0..Len(h) : SendAsMatchAt(h, i) # <<>>}
    IN  IF at = {} THEN <<>> ELSE SendAsMatchAt(h, SetMin(at))

----------------------------------------------------------------------------
\* What the client and the collaborators may do.

L_EHLO == <<"E", "H", "L", "O", " ", "c">>
L_EHLO_NoDomain == <<"E", "H", "L", "O">>
L_HELO == <<"H", "E", "L", "O", " ", "c">>
L_STARTTLS == <<"S", "T", "A", "R", "T", "T", "L", "S">>
L_AUTH_Alice == <<"A", "U", "T", "H", " ", "P", "L", "A", "I", "N", " ", "A", "G", "F", "A", "b", "A", "B", "w">>
L_AUTH_NoAuthc == <<"A", "U", "T", "H", " ", "P", "L", "A", "I", "N", " ", "A", "A", "B", "w">>
L_AUTH_TwoStep == <<"A", "U", "T", "H", " ", "P", "L", "A", "I", "N", " ">>
L_AUTH_NoResponse == <<"A", "U", "T", "H", " ", "P", "L", "A", "I", "N">>
L_AUTH_Login == <<"A", "U", "T", "H", " ", "L", "O", "G", "I", "N">>
L_AUTH_Bare == <<"A", "U", "T", "H">>
L_AUTH_BadB64 == <<"A", "U", "T", "H", " ", "P", "L", "A", "I", "N", " ", "!">>
L_AUTH_TwoParts == <<"A", "U", "T", "H", " ", "P", "L", "A", "I", "N", " ", "Y", "Q", "B", "w">>
L_MAIL_Local == <<"M", "A", "I", "L", " ", "F", "R", "O", "M", ":", "<", "A", "@", "L", ">">>
L_MAIL_Ext == <<"m", "a", "i", "l", " ", "f", "r", "o", "m", ":", "<", "b", "@", "x", ">">>
L_MAIL_NoClose == <<"M", "A", "I", "L", " ", "F", "R", "O", "M", ":", "<", "a", "@", "l">>
L_MAIL_BadAddr == <<"M", "A", "I", "L", " ", "F", "R", "O", "M", ":", "<", "a", "l", ">">>
L_MAIL_BadPrefix == <<"M", "A", "I", "L", " ", "T", "O", ":", "<", "a", "@", "l", ">">>
L_MAIL_Short == <<"M", "A", "I", "L">>
L_RCPT_Local == <<"R", "C", "P", "T", " ", "T", "O", ":", "<", "a", "@", "l", ">">>
L_RCPT_Ext == <<"R", "C", "P", "T", " ", "T", "O", ":", " ", "<", "B", "@", "x", ">">>
L_RCPT_BadAddr == <<"R", "C", "P", "T", " ", "T", "O", ":", "<", "@", ">">>
L_RCPT_NoClose == <<"R", "C", "P", "T", " ", "T", "O", ":", "a", "@", "l">>
L_DATA == <<"D", "A", "T", "A">>
L_RSET == <<"R", "S", "E", "T">>
L_NOOP == <<"n", "o", "o", "p">>
L_VRFY == <<"V", "R", "F", "Y", " ", "a">>
L_EXPN == <<"E", "X", "P", "N", " ", "a">>
L_HELP == <<"H", "E", "L", "P">>
L_QUIT == <<"Q", "U", "I", "T">>
L_Unknown == <<"X", "Y", "Z", "Z", "Y">>
L_Empty == <<>>
L_Blank == <<" ">>

\* The command lines a client sends.
Lines == {L_EHLO, L_EHLO_NoDomain, L_HELO, L_STARTTLS,
          L_AUTH_Alice, L_AUTH_NoAuthc, L_AUTH_TwoStep, L_AUTH_NoResponse,
          L_AUTH_Login, L_AUTH_Bare, L_AUTH_BadB64, L_AUTH_TwoParts,
          L_MAIL_Local, L_MAIL_Ext, L_MAIL_NoClose, L_MAIL_BadAddr, L_MAIL_BadPrefix, L_MAIL_Short,
          L_RCPT_Local, L_RCPT_Ext, L_RCPT_BadAddr, L_RCPT_NoClose,
          L_DATA, L_RSET, L_NOOP, L_VRFY, L_EXPN, L_HELP, L_QUIT, L_Unknown, L_Empty, L_Blank}

\* What a read of the transport returns: an error, or the bytes read.
ReadErr == [err |-> TRUE, data |-> <<>>]
ReadOK(d) == [err |-> FALSE, data |-> d]

\* The line a client sends after the 334 prompt of AUTH.
AuthReads == {ReadErr, ReadOK(B64_Alice), ReadOK(B64_NoAuthc), ReadOK(<<"!">>)}

D_Plain == <<"F", "r", "o", "m", ":", " ", "<", "o", "@", "x", ">", "\n", "S", "u", "b", "j", "e", "c", "t", ":", " ", "h", "i", "\n", "\n", "x", "\n">>
D_SendAs == <<"F", "r", "o", "m", ":", " ", "N", " ", "<", "o", "@", "x", ">", "\n", "S", "u", "b", "j", "e", "c", "t", ":", " ", "h", "i", " ", "[", "S", "e", "n", "d", "A", "s", ":", " ", "b", "]", "\n", "\n", "x", "\n">>
D_NoHeaders == <<"x", "\n">>
D_FromLast == <<"S", "u", "b", "j", "e", "c", "t", ":", " ", "h", "i", " ", "[", "S", "e", "n", "d", "A", "s", ":", " ", "b", "]", "\n", "F", "r", "o", "m", ":", " ", "N", " ", "<", "o", "@", "x", ">", "\n", "\n", "x", "\n">>
D_TwoSubjects == <<"F", "r", "o", "m", ":", " ", "<", "o", "@", "x", ">", "\n", "S", "u", "b", "j", "e", "c", "t", ":", " ", "[", "s", "e", "n", "d", "a", "s", ":", "b", "]", "\n", "S", "u", "b", "j", "e", "c", "t", ":", " ", "h", "i", "\n", "\n", "x", "\n">>
D_NoFrom == <<"S", "u", "b", "j", "e", "c", "t", ":", " ", "h", "i", " ", "[", "s", "e", "n", "d", "a", "s", ":", "b", "]", "\n", "\n", "x", "\n">>
D_NoSubject == <<"X", "-", "T", "a", "g", ":", " ", "[", "s", "e", "n", "d", "a", "s", ":", "b", "]", "\n", "F", "r", "o", "m", ":", " ", "<", "o", "@", "x", ">", "\n", "\n", "x", "\n">>

\* The message a client sends after the 354 prompt of DATA.
DataReads == {ReadErr, ReadOK(D_Plain), ReadOK(D_SendAs), ReadOK(D_NoHeaders),
              ReadOK(D_FromLast), ReadOK(D_TwoSubjects), ReadOK(D_NoFrom), ReadOK(D_NoSubject)}

\* What Server.VerifyAddress may answer.
VerifyReplies == {ReplyOK, ReplyBadMailbox}
\* What Server.DeliverMessage may answer: nil, or a rejection.
DeliverReplies == {NoReply, Reply(552, "mailbox full")}

\* An Envelope, as far as the session decides it.
Envelope(e, from, rcpts, data) == [EHLO |-> e, MailFrom |-> from, RcptTo |-> rcpts, Data |-> data]
NoEnvelope == Envelope(<<>>, <<>>, <<>>, <<>>)

\* A call of a collaborator and what it returned.
Call(fn, addr, env, ret, ok) == [fn |-> fn, addr |-> addr, env |-> env, ret |-> ret, ok |-> ok]

----------------------------------------------------------------------------
\* The session: the fields of connection, the replies written and the
\* collaborator calls made while the last line was handled, and where
\* AcceptConnection stands.

VARIABLES
    state,      \* conn.state
    esmtp,      \* conn.esmtp
    tls,        \* conn.tls: 0 for nil, n for the state of the n-th handshake
    authc,      \* conn.authc
    delivery,   \* conn.delivery
    ehlo,       \* conn.ehlo
    mailFrom,   \* conn.mailFrom
    rcptTo,     \* conn.rcptTo
    line,       \* conn.line
    pc,         \* "loop": reading lines; "closed": returned; "panic": nil dereference
    out,        \* the reply lines written while handling conn.line
    calls,      \* the collaborator calls made while handling conn.line
    tlsConfig,  \* whether server.TLSConfig() is non-nil
    authed,     \* whether a call of server.Authenticate has returned true
    greeted,    \* whether an EHLO or HELO succeeded since the accept and the last handshake
    lastGreeting, \* the verb of the last EHLO or HELO that succeeded, <<>> before the first
    wrerr,      \* whether a write of a reply has failed: conn.tp's writer keeps its first error
    faulty,     \* whether the transport of this session may fail a write
    data        \* the bytes ReadDotBytes returned while conn.line was handled, <<>> if none

vars == <<state, esmtp, tls, authc, delivery, ehlo, mailFrom, rcptTo, line, pc, out,
          calls, tlsConfig, authed, greeted, lastGreeting, wrerr, faulty, data>>

\* The session fields a handler may assign.
session == <<state, tls, authc, delivery, ehlo, mailFrom, rcptTo, authed, greeted>>

\* The connection as AcceptConnection builds it, after the 220 greeting.
Accepted ==
    /\ state = stateNew
    /\ esmtp = FALSE
    /\ tls = 0
    /\ authc = <<>>
    /\ delivery = deliverUnknown
    /\ ehlo = <<>>
    /\ mailFrom = NilAddr
    /\ rcptTo = <<>>
    /\ line = <<>>
    /\ pc = "loop"
    /\ out = <<Reply(220, "ESMTP (mailpopbox)")>>
    /\ calls = <<>>
    /\ tlsConfig \in BOOLEAN
    /\ authed = FALSE
    /\ greeted = FALSE
    /\ lastGreeting = <<>>
    /\ data = <<>>

\* A session over a transport that takes every reply.
Init ==
    /\ Accepted
    /\ faulty = FALSE
    /\ wrerr = FALSE

\* A session over a transport that took the greeting and may stop taking
\* replies at any turn of the loop.
InitTransport ==
    /\ Accepted
    /\ faulty = TRUE
    /\ wrerr = FALSE

\* The handler writes these replies, calls no collaborator and returns.
Answer(replies) ==
    /\ out' = replies
    /\ calls' = <<>>
    /\ data' = <<>>
    /\ UNCHANGED pc

\* A resetBuffers that leaves the sender in place.
resetBuffers_KeepingSender ==
    /\ delivery' = deliverUnknown
    /\ rcptTo' = <<>>
    /\ UNCHANGED mailFrom

\* A resetBuffers that leaves the recipients in place.
resetBuffers_KeepingRecipients ==
    /\ delivery' = deliverUnknown
    /\ mailFrom' = NilAddr
    /\ UNCHANGED rcptTo

resetBuffers ==
    /\ delivery' = deliverUnknown
    /\ mailFrom' = NilAddr
    /\ rcptTo' = <<>>

\* A state guard that resets the transaction before it answers, as doEHLO does
\* before it reads its operand.
BadSequence_Resetting ==
    /\ resetBuffers
    /\ Answer(<<ReplyBadSequence>>)
    /\ UNCHANGED <<state, tls, authc, ehlo, authed, greeted>>

\* A handler's state guard failed: 503, and nothing else happens.
BadSequence ==
    /\ Answer(<<ReplyBadSequence>>)
    /\ UNCHANGED session

\* A doMAIL that lets every locally served sender relay.
relayPermitted_Always(from) == TRUE

\* doMAIL: whether a locally served sender may relay, which is when its domain
\* is the domain of the authenticated identity.
relayPermitted(from) ==
    DomainForAddress(from) = DomainForAddressString(authc)

\* A doMAIL with the two branches of the classification exchanged.
classify_Exchanged(verify) ==
    IF verify = ReplyOK THEN deliverInbound ELSE deliverOutbound

\* doMAIL: the delivery a permitted transaction gets from the verification of
\* its sender.
classify(verify) ==
    IF verify = ReplyOK THEN deliverOutbound ELSE deliverInbound

\* A doRCPT that refuses unverified recipients of every transaction.
rcptRefused_AnyDelivery(verify) ==
    verify # ReplyOK

\* doRCPT: whether the recipient is refused.
rcptRefused(verify) ==
    verify # ReplyOK /\ delivery = deliverInbound

\* parsePath: <<path, reply>>.
parsePath(command, l) ==
    IF Len(l) < Len(command) THEN <<<<>>, ReplyBadSyntax>>
    ELSE IF ToUpper(command) # ToUpper(Slice(l, 0, Len(command)))
    THEN <<<<>>, Reply(500, "unrecognized command")>>
    ELSE LET params == Slice(l, Len(command), Len(l))
             idx == Index(params, <<">">>)
         IN  IF idx = -1 THEN <<<<>>, ReplyBadSyntax>>
             ELSE <<ToLower(Slice(params, 0, idx + 1)), ReplyOK>>

\* The verb the loop switches on, <<>> when Sscanf finds none.
Verb(l) == LET f == Fields(l) IN IF f = <<>> THEN <<>> ELSE ToUpper(f[1])

\* The verbs of the switch that have a case of their own; every other verb
\* takes the default case.
CaseVerbs == {S_QUIT, S_HELO, S_EHLO, S_STARTTLS, S_AUTH, S_MAIL, S_RCPT, S_DATA, S_RSET,
              S_VRFY, S_EXPN, S_NOOP, S_HELP}

\* The lines the switch sends to the cases of these verbs.
Dispatch(verbs) == {l \in Lines : Verb(l) \in verbs}
ScanErrorLines == Dispatch({<<>>})
QUITLines == Dispatch({S_QUIT})
EHLOLines == Dispatch({S_HELO, S_EHLO})
STARTTLSLines == Dispatch({S_STARTTLS})
AUTHLines == Dispatch({S_AUTH})
MAILLines == Dispatch({S_MAIL})
RCPTLines == Dispatch({S_RCPT})
DATALines == Dispatch({S_DATA})
RSETLines == Dispatch({S_RSET})
OtherLines == Dispatch({S_VRFY, S_EXPN, S_NOOP, S_HELP}) \cup {l \in Lines : Verb(l) \notin CaseVerbs \cup {<<>>}}

\* What parsePath and then mail.ParseAddress make of each MAIL and RCPT line:
\* parsePath's reply, and the address, nil unless both succeeded.
PathOf(command, l) ==
    LET path == parsePath(command, l)
    IN  [reply |-> path[2],
         address |-> IF path[2] = ReplyOK THEN ParseAddress(path[1]) ELSE NilAddr]
MailPaths == [l \in MAILLines |-> PathOf(S_MAILFROM, l)]
RcptPaths == [l \in RCPTLines |-> PathOf(S_RCPTTO, l)]

doEHLO(l) ==
    LET f == Fields(l)
    IN  /\ resetBuffers
        /\ IF Len(f) < 2
           THEN /\ Answer(<<ReplyBadSyntax>>)
                /\ UNCHANGED <<ehlo, state, greeted>>
           ELSE /\ ehlo' = f[2]
                /\ Answer(IF f[1] = S_HELO
                          THEN <<Reply(250, "Hello")>>
                          ELSE <<Reply(250, "-Hello")>>
                                \o (IF tlsConfig /\ tls = 0 THEN <<Reply(250, "-STARTTLS")>> ELSE <<>>)
                                \o (IF tls # 0 THEN <<Reply(250, "-AUTH PLAIN")>> ELSE <<>>)
                                \o <<Reply(250, "SIZE 40960000")>>)
                /\ state' = stateInitial
                /\ greeted' = TRUE
        /\ UNCHANGED <<tls, authc, authed>>

doSTARTTLS(l) ==
    IF state # stateInitial
    THEN BadSequence
    ELSE IF ~esmtp \/ ~tlsConfig
    THEN Answer(<<Reply(500, "unrecognized command")>>) /\ UNCHANGED session
    ELSE \E handshake \in BOOLEAN :
            /\ Answer(<<Reply(220, "initiate TLS connection")>>)
            /\ IF handshake
               THEN /\ tls < MaxTLS
                    /\ state' = stateNew
                    /\ tls' = tls + 1
                    /\ greeted' = FALSE
                    /\ UNCHANGED <<authc, delivery, ehlo, mailFrom, rcptTo, authed>>
               ELSE UNCHANGED session

doAUTH(l) ==
    IF state # stateInitial \/ tls = 0
    THEN BadSequence
    ELSE IF authc # <<>>
    THEN Answer(<<Reply(503, "already authenticated")>>) /\ UNCHANGED session
    ELSE
    LET f == Fields(l)
        n == IF Len(f) < 3 THEN Len(f) ELSE 3
    IN  IF n < 2
        THEN Answer(<<ReplyBadSyntax>>) /\ UNCHANGED session
        ELSE IF f[2] # S_PLAIN
        THEN Answer(<<Reply(504, "unrecognized auth type")>>) /\ UNCHANGED session
        ELSE IF n = 2 /\ l[Len(l)] # " "
        THEN Answer(<<ReplyBadSyntax>>) /\ UNCHANGED session
        ELSE \E rd \in (IF n = 3 THEN {ReadOK(f[3])} ELSE AuthReads) :
            LET prompt == IF n = 3 THEN <<>> ELSE <<Reply(334, " ")>>
                authParts == Split(B64Decode(rd.data), "NUL")
            IN  IF rd.err \/ ~B64Valid(rd.data)
                THEN Answer(prompt \o <<ReplyBadSyntax>>) /\ UNCHANGED session
                ELSE IF Len(authParts) # 3
                THEN Answer(prompt \o <<ReplyBadSyntax>>) /\ UNCHANGED session
                ELSE \E ok \in BOOLEAN :
                    /\ calls' = <<Call("Authenticate", authParts[2], NoEnvelope, NoReply, ok)>>
                    /\ data' = <<>>
                    /\ UNCHANGED pc
                    /\ IF ~ok
                       THEN /\ out' = prompt \o <<Reply(535, "invalid credentials")>>
                            /\ UNCHANGED session
                       ELSE /\ authed' = TRUE
                            /\ UNCHANGED greeted
                            /\ authc' = authParts[2]
                            /\ out' = prompt \o <<ReplyAuthOK>>
                            /\ UNCHANGED <<state, tls, delivery, ehlo, mailFrom, rcptTo>>

doMAIL(l) ==
    IF state # stateInitial
    THEN BadSequence
    ELSE
    LET path == MailPaths[l]
        from == path.address
    IN  IF path.reply # ReplyOK
        THEN Answer(<<path.reply>>) /\ UNCHANGED session
        ELSE IF from.nil
        THEN /\ mailFrom' = from
             /\ Answer(<<ReplyBadSyntax>>)
             /\ UNCHANGED <<state, tls, authc, delivery, ehlo, rcptTo, authed, greeted>>
        ELSE \E verify \in VerifyReplies :
            /\ mailFrom' = from
            /\ calls' = <<Call("VerifyAddress", from.Address, NoEnvelope, verify, TRUE)>>
            /\ data' = <<>>
            /\ UNCHANGED <<pc, tls, authc, ehlo, rcptTo, authed, greeted>>
            /\ IF verify = ReplyOK /\ ~relayPermitted(from)
               THEN /\ out' = <<Reply(550, "not authenticated")>>
                    /\ UNCHANGED <<state, delivery>>
               ELSE /\ delivery' = classify(verify)
                    /\ state' = stateMail
                    /\ out' = <<ReplyOK>>

doRCPT(l) ==
    IF state # stateMail /\ state # stateRecipient
    THEN BadSequence
    ELSE
    LET path == RcptPaths[l]
        address == path.address
    IN  IF path.reply # ReplyOK
        THEN Answer(<<path.reply>>) /\ UNCHANGED session
        ELSE IF address.nil
        THEN Answer(<<ReplyBadSyntax>>) /\ UNCHANGED session
        ELSE \E verify \in VerifyReplies :
            /\ calls' = <<Call("VerifyAddress", address.Address, NoEnvelope, verify, TRUE)>>
            /\ data' = <<>>
            /\ UNCHANGED pc
            /\ IF rcptRefused(verify)
               THEN /\ out' = <<verify>>
                    /\ UNCHANGED session
               ELSE /\ Len(rcptTo) < MaxRcpt
                    /\ rcptTo' = Append(rcptTo, address.Address)
                    /\ state' = stateRecipient
                    /\ out' = <<ReplyOK>>
                    /\ UNCHANGED <<tls, authc, delivery, ehlo, mailFrom, authed, greeted>>

\* handleSendAs: the envelope after the send-as rewrite.
handleSendAs(env) ==
    IF delivery # deliverOutbound THEN env
    ELSE
    LET headerIdx == Index(env.Data, <<"\n", "\n">>)
        headers == SplitAfter(Slice(env.Data, 0, headerIdx), "\n")
        \* The scan assigns at every match, so the last one stays; the indices start at 0.
        froms == {i \in 0..(Len(headers) - 1) : HasPrefix(headers[i + 1], S_From)}
        subjects == {i \in 0..(Len(headers) - 1) :
                        /\ ~HasPrefix(headers[i + 1], S_From)
                        /\ HasPrefix(headers[i + 1], S_Subject)}
        fromIdx == IF froms = {} THEN 0 ELSE SetMax(froms)
        subjectIdx == IF subjects = {} THEN 0 ELSE SetMax(subjects)
        sendAs == FindSubmatchIndex(headers[subjectIdx + 1])
        sendAsUser == Slice(headers[subjectIdx + 1], sendAs[3], sendAs[4])
        sendAsAddress == sendAsUser \o <<"@">> \o DomainForAddressString(authc)
        buf == [i \in 1..Len(headers) |->
                   LET header == headers[i]
                       addressStart == LastIndex(header, <<"<">>)
                   IN  IF i - 1 = subjectIdx
                       THEN Slice(header, 0, sendAs[1]) \o Slice(header, sendAs[2], Len(header))
                       ELSE IF i - 1 = fromIdx
                       THEN Slice(header, 0, addressStart + 1) \o sendAsAddress \o <<">", "\n">>
                       ELSE header]
    IN  IF headerIdx = -1 THEN env
        ELSE IF subjectIdx = -1 \/ fromIdx = -1 THEN env
        ELSE IF sendAs = <<>> THEN env
        ELSE [env EXCEPT !.Data = Concat(buf) \o Slice(env.Data, headerIdx, Len(env.Data)),
                         !.MailFrom = sendAsAddress]

\* getReceivedInfo: the trace header, without the host, id and date.
getReceivedInfo(envelope) ==
    LET with == (IF esmtp THEN <<"E">> ELSE <<>>) \o <<"S", "M", "T", "P">>
                    \o (IF tls # 0 THEN <<"S">> ELSE <<>>)
    IN  <<"Received: from ">> \o ehlo \o <<" with ">> \o with
            \o (IF Len(envelope.RcptTo) > 0
                THEN <<" for <">> \o envelope.RcptTo[1] \o <<">">>
                ELSE <<>>)
            \o <<IF tls = 0 THEN " (using PLAINTEXT)" ELSE " (using TLS)", "\r\n">>

\* A doDATA that takes every answer of DeliverMessage for an acceptance.
delivered_Always(deliver) == TRUE

\* doDATA: whether the collaborator took the message, which is when
\* DeliverMessage returned nil; RelayMessage returns nothing.
delivered(deliver) == deliver = NoReply

doDATA(l) ==
    IF state # stateRecipient
    THEN BadSequence
    ELSE \E rd \in DataReads :
        LET prompt == <<Reply(354, "Start mail input; end with <CRLF>.<CRLF>")>>
            env0 == Envelope(ehlo, mailFrom.Address, rcptTo, rd.data)
            env1 == handleSendAs(env0)
            env == [env1 EXCEPT !.Data = getReceivedInfo(env1) \o env1.Data]
        IN  IF rd.err
            THEN Answer(prompt \o <<Reply(552, "transaction failed")>>) /\ UNCHANGED session
            ELSE IF mailFrom.nil
            \* *conn.mailFrom dereferences nil: the goroutine panics.
            THEN /\ pc' = "panic"
                 /\ out' = prompt
                 /\ calls' = <<>>
                 /\ data' = rd.data
                 /\ UNCHANGED session
            ELSE \E deliver \in (IF delivery = deliverInbound THEN DeliverReplies ELSE {NoReply}) :
                /\ calls' = IF delivery = deliverInbound
                            THEN <<Call("DeliverMessage", <<>>, env, deliver, TRUE)>>
                            ELSE IF delivery = deliverOutbound
                            THEN <<Call("RelayMessage", <<>>, env, NoReply, TRUE)>>
                            ELSE <<>>
                /\ data' = rd.data
                /\ UNCHANGED pc
                /\ IF ~delivered(deliver)
                   THEN /\ out' = prompt \o <<deliver>>
                        /\ UNCHANGED session
                   ELSE /\ state' = stateInitial
                        /\ resetBuffers
                        /\ out' = prompt \o <<ReplyOK>>
                        /\ UNCHANGED <<tls, authc, ehlo, authed, greeted>>

\* A doRSET that clears the transaction and stays in its state.
doRSET_KeepingState ==
    /\ resetBuffers
    /\ Answer(<<ReplyOK>>)
    /\ UNCHANGED <<state, tls, authc, ehlo, authed, greeted>>

doRSET ==
    /\ state' = stateInitial
    /\ resetBuffers
    /\ Answer(<<ReplyOK>>)
    /\ UNCHANGED <<tls, authc, ehlo, authed, greeted>>

----------------------------------------------------------------------------
\* AcceptConnection: one turn of the loop per action.

\* conn.esmtp after the HELO and EHLO cases: HELO clears it and falls through
\* into the EHLO case, which sets it.
esmtpAfterGreeting(verb) ==
    LET cleared == IF verb = S_HELO THEN FALSE ELSE esmtp
        fellThrough == TRUE
    IN  fellThrough

\* One turn of the loop: the line is read into conn.line. Every turn writes
\* at least one reply; writeReply logs a failed write and the handlers drop
\* the error it returns.
Turn(l) ==
    /\ pc = "loop"
    /\ line' = l
    /\ wrerr' \in (IF wrerr THEN {TRUE} ELSE IF faulty THEN BOOLEAN ELSE {FALSE})
    /\ UNCHANGED <<tlsConfig, faulty>>

ReadLineError ==
    /\ pc = "loop"
    /\ line' = <<>>
    /\ pc' = "closed"
    /\ out' = <<>>
    /\ calls' = <<>>
    /\ data' = <<>>
    /\ UNCHANGED <<session, esmtp, lastGreeting, tlsConfig, wrerr, faulty>>

ScanError ==
    \E l \in ScanErrorLines :
        /\ Turn(l)
        /\ Answer(<<ReplyBadSyntax>>)
        /\ UNCHANGED <<session, esmtp, lastGreeting>>

QUIT ==
    \E l \in QUITLines :
        /\ Turn(l)
        /\ pc' = "closed"
        /\ out' = <<Reply(221, "Goodbye")>>
        /\ calls' = <<>>
        /\ data' = <<>>
        /\ UNCHANGED <<session, esmtp, lastGreeting>>

EHLO ==
    \E l \in EHLOLines :
        /\ Turn(l)
        /\ esmtp' = esmtpAfterGreeting(Verb(l))
        /\ doEHLO(l)
        /\ lastGreeting' = IF Len(Fields(l)) >= 2 THEN Verb(l) ELSE lastGreeting

STARTTLS ==
    \E l \in STARTTLSLines : Turn(l) /\ doSTARTTLS(l) /\ UNCHANGED <<esmtp, lastGreeting>>

AUTH ==
    \E l \in AUTHLines : Turn(l) /\ doAUTH(l) /\ UNCHANGED <<esmtp, lastGreeting>>

MAIL ==
    \E l \in MAILLines : Turn(l) /\ doMAIL(l) /\ UNCHANGED <<esmtp, lastGreeting>>

RCPT ==
    \E l \in RCPTLines : Turn(l) /\ doRCPT(l) /\ UNCHANGED <<esmtp, lastGreeting>>

DATA ==
    \E l \in DATALines : Turn(l) /\ doDATA(l) /\ UNCHANGED <<esmtp, lastGreeting>>

RSET ==
    \E l \in RSETLines : Turn(l) /\ doRSET /\ UNCHANGED <<esmtp, lastGreeting>>

\* VRFY, EXPN, NOOP, HELP and the default case: one reply, nothing else.
Other ==
    \E l \in OtherLines :
        /\ Turn(l)
        /\ Answer(<<IF Verb(l) = S_VRFY THEN Reply(252, "I'll do my best")
                    ELSE IF Verb(l) = S_EXPN THEN Reply(550, "access denied")
                    ELSE IF Verb(l) = S_NOOP THEN ReplyOK
                    ELSE IF Verb(l) = S_HELP THEN Reply(250, "https://tools.ietf.org/html/rfc5321")
                    ELSE Reply(500, "unrecognized command")>>)
        /\ UNCHANGED <<session, esmtp, lastGreeting>>

Next ==
    \/ ReadLineError
    \/ ScanError
    \/ QUIT
    \/ EHLO
    \/ STARTTLS
    \/ AUTH
    \/ MAIL
    \/ RCPT
    \/ DATA
    \/ RSET
    \/ Other

Spec == Init /\ [][Next]_vars

\* The same loop over a transport that may fail a write.
SpecTransport == InitTransport /\ [][Next]_vars

----------------------------------------------------------------------------
\* The session loop of src/unnamed/part_000, an earlier AcceptConnection: no
\* STARTTLS, no AUTH and no delivery; conn.tls is a flag nothing sets.

\* The fields this variant never assigns, and the transport's.
part000_frame == <<tls, authc, delivery, tlsConfig, authed, greeted, lastGreeting, wrerr, faulty>>

\* parsePath: <<path, reply>>; the path is the rest of the line.
part000_parsePath(command, l) ==
    IF Len(l) < Len(command) THEN <<<<>>, ReplyBadSyntax>>
    ELSE IF ToUpper(command) # ToUpper(Slice(l, 0, Len(command)))
    THEN <<<<>>, Reply(500, "unrecognized command")>>
    ELSE <<Slice(l, Len(command), Len(l)), ReplyOK>>

\* What parsePath and then mail.ParseAddress make of each MAIL and RCPT line.
part000_PathOf(command, l) ==
    LET path == part000_parsePath(command, l)
    IN  [reply |-> path[2],
         address |-> IF path[2] = ReplyOK THEN ParseAddress(path[1]) ELSE NilAddr]
part000_MailPaths == [l \in MAILLines |-> part000_PathOf(S_MAILFROM, l)]
part000_RcptPaths == [l \in RCPTLines |-> part000_PathOf(S_RCPTTO, l)]

\* The handler writes these replies, calls no collaborator and returns.
part000_Answer(replies) ==
    /\ out' = replies
    /\ calls' = <<>>
    /\ data' = <<>>
    /\ UNCHANGED pc

part000_resetBuffers ==
    /\ mailFrom' = NilAddr
    /\ rcptTo' = <<>>

part000_doEHLO(l) ==
    LET f == Fields(l)
    IN  /\ part000_resetBuffers
        /\ IF Len(f) < 2
           THEN /\ part000_Answer(<<ReplyBadSyntax>>)
                /\ UNCHANGED <<ehlo, state>>
           ELSE /\ ehlo' = f[2]
                /\ part000_Answer(IF f[1] = S_HELO
                                  THEN <<Reply(250, "Hello")>>
                                  ELSE <<Reply(250, "-Hello")>>
                                        \o (IF tlsConfig THEN <<Reply(250, "-STARTTLS")>> ELSE <<>>)
                                        \o <<Reply(250, "SIZE 40960000")>>)
                /\ state' = stateInitial

part000_doMAIL(l) ==
    IF state # stateInitial
    THEN part000_Answer(<<ReplyBadSequence>>) /\ UNCHANGED <<state, ehlo, mailFrom, rcptTo>>
    ELSE
    LET path == part000_MailPaths[l]
    IN  IF path.reply # ReplyOK
        THEN part000_Answer(<<path.reply>>) /\ UNCHANGED <<state, ehlo, mailFrom, rcptTo>>
        ELSE /\ mailFrom' = path.address
             /\ UNCHANGED <<ehlo, rcptTo>>
             /\ IF path.address.nil
                THEN part000_Answer(<<ReplyBadSyntax>>) /\ UNCHANGED state
                ELSE part000_Answer(<<ReplyOK>>) /\ state' = stateMail

part000_doRCPT(l) ==
    IF state # stateMail /\ state # stateRecipient
    THEN part000_Answer(<<ReplyBadSequence>>) /\ UNCHANGED <<state, ehlo, mailFrom, rcptTo>>
    ELSE
    LET path == part000_RcptPaths[l]
        address == path.address
    IN  IF path.reply # ReplyOK
        THEN part000_Answer(<<path.reply>>) /\ UNCHANGED <<state, ehlo, mailFrom, rcptTo>>
        ELSE IF address.nil
        \* The error is answered and the handler goes on to *address, which is nil.
        THEN /\ out' = <<ReplyBadSyntax>>
             /\ calls' = <<>>
             /\ data' = <<>>
             /\ pc' = "panic"
             /\ UNCHANGED <<state, ehlo, mailFrom, rcptTo>>
        ELSE \E verify \in VerifyReplies :
            /\ calls' = <<Call("VerifyAddress", address.Address, NoEnvelope, verify, TRUE)>>
            /\ data' = <<>>
            /\ UNCHANGED <<pc, ehlo, mailFrom>>
            /\ IF verify # ReplyOK
               THEN /\ out' = <<verify>>
                    /\ UNCHANGED <<state, rcptTo>>
               ELSE /\ Len(rcptTo) < MaxRcpt
                    /\ rcptTo' = Append(rcptTo, address.Address)
                    /\ state' = stateRecipient
                    /\ out' = <<ReplyOK>>

\* getReceivedInfo: the trace header, without the host, id and date.
part000_getReceivedInfo(envelope) ==
    LET with == (IF esmtp THEN <<"E">> ELSE <<>>) \o <<"S", "M", "T", "P">>
                    \o (IF tls # 0 THEN <<"S">> ELSE <<>>)
    IN  <<"Received: from ">> \o ehlo \o <<" with ">> \o with
            \o <<" for <">> \o envelope.RcptTo[1] \o <<">">>
            \o <<" (using PLAINTEXT)", "\r\n">>

part000_doDATA(l) ==
    IF state # stateRecipient
    THEN part000_Answer(<<ReplyBadSequence>>) /\ UNCHANGED <<state, ehlo, mailFrom, rcptTo>>
    ELSE \E rd \in DataReads :
        LET prompt == <<Reply(354, "Start mail input; end with <CRLF>.<CRLF>")>>
            env0 == Envelope(ehlo, mailFrom.Address, rcptTo, <<>>)
            env == [env0 EXCEPT !.Data = part000_getReceivedInfo(env0) \o rd.data]
        IN  /\ UNCHANGED <<ehlo, mailFrom, rcptTo>>
            /\ IF rd.err
               THEN part000_Answer(prompt \o <<Reply(552, "transaction failed")>>) /\ UNCHANGED state
               ELSE IF mailFrom.nil \/ rcptTo = <<>>
               \* *conn.mailFrom on nil, or envelope.RcptTo[0] of an empty list: a panic.
               THEN /\ pc' = "panic"
                    /\ out' = prompt
                    /\ calls' = <<>>
                    /\ data' = rd.data
                    /\ UNCHANGED state
               ELSE \E deliver \in DeliverReplies :
                   /\ calls' = <<Call("OnMessageDelivered", <<>>, env, deliver, TRUE)>>
                   /\ data' = rd.data
                   /\ UNCHANGED pc
                   /\ IF deliver # NoReply
                      THEN out' = prompt \o <<deliver>> /\ UNCHANGED state
                      ELSE out' = prompt \o <<ReplyOK>> /\ state' = stateInitial

part000_doRSET ==
    /\ state' = stateInitial
    /\ part000_resetBuffers
    /\ part000_Answer(<<ReplyOK>>)
    /\ UNCHANGED ehlo

\* One turn of the loop: the line is read into conn.line.
part000_Turn(l) ==
    /\ pc = "loop"
    /\ line' = l
    /\ UNCHANGED part000_frame

\* ReadLine fails, also when QUIT has closed the transport: the loop answers
\* 500 and goes on to the next ReadLine.
part000_ReadLineError ==
    /\ pc \in {"loop", "quit"}
    /\ line' = <<>>
    /\ out' = <<Reply(500, "line too long")>>
    /\ calls' = <<>>
    /\ data' = <<>>
    /\ UNCHANGED <<pc, state, esmtp, ehlo, mailFrom, rcptTo, part000_frame>>

part000_ScanError ==
    \E l \in ScanErrorLines :
        /\ part000_Turn(l)
        /\ part000_Answer(<<ReplyBadSyntax>>)
        /\ UNCHANGED <<state, esmtp, ehlo, mailFrom, rcptTo>>

\* QUIT: 221, the transport is closed, and the break leaves the switch only:
\* the loop goes on, at "quit".
part000_QUIT ==
    \E l \in QUITLines :
        /\ part000_Turn(l)
        /\ pc' = "quit"
        /\ out' = <<Reply(221, "Goodbye")>>
        /\ calls' = <<>>
        /\ data' = <<>>
        /\ UNCHANGED <<state, esmtp, ehlo, mailFrom, rcptTo>>

part000_EHLO ==
    \E l \in EHLOLines :
        /\ part000_Turn(l)
        /\ esmtp' = esmtpAfterGreeting(Verb(l))
        /\ part000_doEHLO(l)

part000_MAIL ==
    \E l \in MAILLines : part000_Turn(l) /\ part000_doMAIL(l) /\ UNCHANGED esmtp

part000_RCPT ==
    \E l \in RCPTLines : part000_Turn(l) /\ part000_doRCPT(l) /\ UNCHANGED esmtp

part000_DATA ==
    \E l \in DATALines : part000_Turn(l) /\ part000_doDATA(l) /\ UNCHANGED esmtp

part000_RSET ==
    \E l \in RSETLines : part000_Turn(l) /\ part000_doRSET /\ UNCHANGED esmtp

\* VRFY, EXPN, NOOP, HELP and the default case, which here takes STARTTLS and
\* AUTH too: one reply, nothing else.
part000_Other ==
    \E l \in OtherLines \cup STARTTLSLines \cup AUTHLines :
        /\ part000_Turn(l)
        /\ part000_Answer(<<IF Verb(l) = S_VRFY THEN Reply(252, "I'll do my best")
                            ELSE IF Verb(l) = S_EXPN THEN Reply(550, "access denied")
                            ELSE IF Verb(l) = S_NOOP THEN ReplyOK
                            ELSE IF Verb(l) = S_HELP THEN Reply(250, "https://tools.ietf.org/html/rfc5321")
                            ELSE Reply(500, "unrecognized command")>>)
        /\ UNCHANGED <<state, esmtp, ehlo, mailFrom, rcptTo>>

part000_Next ==
    \/ part000_ReadLineError
    \/ part000_ScanError
    \/ part000_QUIT
    \/ part000_EHLO
    \/ part000_MAIL
    \/ part000_RCPT
    \/ part000_DATA
    \/ part000_RSET
    \/ part000_Other

part000_Spec == Init /\ [][part000_Next]_vars

----------------------------------------------------------------------------
\* Properties.

\* Whether a reply with this code was written while conn.line was handled.
Wrote(code) == \E i \in 1..Len(out) : out[i].code = code
\* The calls of this collaborator function made while conn.line was handled.
CallsOf(fn) == {calls[i] : i \in {j \in 1..Len(calls) : calls[j].fn = fn}}
\* The next state's counterparts.
WroteNext(code) == \E i \in 1..Len(out') : out'[i].code = code
CallsOfNext(fn) == {calls'[i] : i \in {j \in 1..Len(calls') : calls'[j].fn = fn}}

\* C1: an Envelope is only built from a sender that is not nil and a list of
\* at least one recipient: doDATA never dereferences a nil conn.mailFrom, and
\* every envelope handed to DeliverMessage or RelayMessage has a sender and a
\* recipient.
C1_EnvelopeHasSenderAndRecipient ==
    /\ pc # "panic"
    /\ \A c \in CallsOf("DeliverMessage") \cup CallsOf("RelayMessage") :
           /\ c.env.MailFrom # <<>>
           /\ Len(c.env.RcptTo) >= 1

\* C2: a successful STARTTLS leaves the session in state New with no greeting,
\* and as long as no EHLO or HELO has succeeded since the accept or the last
\* handshake, every MAIL, RCPT and DATA is answered 503.
C2_NoMailBeforeGreeting ==
    [][/\ (line' \in STARTTLSLines /\ tls' # tls) => (state' = stateNew /\ ~greeted')
       /\ (~greeted /\ line' \in MAILLines \cup RCPTLines \cup DATALines)
              => out' = <<ReplyBadSequence>>]_vars

\* C3: an Outbound transaction belongs to a session that is authenticated
\* over TLS, and every envelope handed to RelayMessage has a sender in the
\* domain of the authenticated identity.
C3_RelayOnlyForAuthenticatedDomain ==
    /\ delivery = deliverOutbound => (authc # <<>> /\ tls # 0)
    /\ \A c \in CallsOf("RelayMessage") :
           /\ authc # <<>>
           /\ tls # 0
           /\ DomainForAddressString(c.env.MailFrom) = DomainForAddressString(authc)

\* C3's case: a message whose sender send-as rewrote was relayed.
C3_Witness ==
    \E c \in CallsOf("RelayMessage") :
        /\ c.env.MailFrom = <<"b", "@", "l">>
        /\ authc = <<"a", "@", "l">>

\* C4: a recipient is appended only when VerifyAddress answered the canonical
\* OK for it or the transaction is Outbound.
C4_RecipientsVerifiedOrOutbound ==
    [][Len(rcptTo') > Len(rcptTo)
          => \/ delivery = deliverOutbound
             \/ \E c \in CallsOfNext("VerifyAddress") :
                    c.addr = rcptTo'[Len(rcptTo')] /\ c.ret = ReplyOK]_vars
\* C5: a command issued outside its legal state is answered 503 and changes
\* no field of the session.
C5_OutOfSequenceChangesNothing ==
    [][(\/ line' \in STARTTLSLines \cup AUTHLines \cup MAILLines /\ state # stateInitial
        \/ line' \in RCPTLines /\ state # stateMail /\ state # stateRecipient
        \/ line' \in DATALines /\ state # stateRecipient)
          => /\ out' = <<ReplyBadSequence>>
             /\ UNCHANGED <<state, delivery, mailFrom, rcptTo, ehlo, tls, authc>>]_vars

\* C5's case: a DATA issued in the middle of a transaction, in state Mail,
\* was answered 503.
C5_Witness ==
    /\ line \in DATALines
    /\ state = stateMail
    /\ ~mailFrom.nil
    /\ out = <<ReplyBadSequence>>

\* C6: a MAIL with a valid address in state Initial is accepted as Inbound
\* when VerifyAddress does not answer OK, accepted as Outbound when it answers
\* OK and the sender is in the domain of the authenticated identity, and
\* otherwise answered 550 with state Initial and delivery Unknown.
C6_MailClassification ==
    [][LET from == MailPaths[line'].address
           verifies == CallsOfNext("VerifyAddress")
           accepted(d) == out' = <<ReplyOK>> /\ delivery' = d /\ state' = stateMail
       IN  (/\ line' \in MAILLines
            /\ state = stateInitial
            /\ ~from.nil)
             => /\ Cardinality(verifies) = 1
                /\ \A c \in verifies :
                     /\ c.addr = from.Address
                     /\ c.ret # ReplyOK => accepted(deliverInbound)
                     /\ (c.ret = ReplyOK
                           /\ DomainForAddress(from) = DomainForAddressString(authc))
                          => accepted(deliverOutbound)
                     /\ (c.ret = ReplyOK
                           /\ (authc = <<>>
                                 \/ DomainForAddress(from) # DomainForAddressString(authc)))
                          => /\ Len(out') = 1
                             /\ out'[1].code = 550
                             /\ state' = stateInitial
                             /\ delivery' = deliverUnknown]_vars

\* C6's case: an authenticated session's MAIL was classified Outbound.
C6_Witness ==
    /\ line \in MAILLines
    /\ state = stateMail
    /\ delivery = deliverOutbound
    /\ out = <<ReplyOK>>

\* C7: a RCPT with a valid address in state Mail or Recipient is answered with
\* the reply of VerifyAddress and changes nothing when that reply is a
\* rejection and the transaction is Inbound; it is accepted whenever the
\* transaction is Outbound; and an accepted RCPT appends its address to the
\* recipient list and enters state Recipient.
C7_RcptDecision ==
    [][LET address == RcptPaths[line'].address
           verifies == CallsOfNext("VerifyAddress")
       IN  (/\ line' \in RCPTLines
            /\ state \in {stateMail, stateRecipient}
            /\ ~address.nil)
             => /\ Cardinality(verifies) = 1
                /\ \A c \in verifies :
                     /\ c.addr = address.Address
                     /\ (delivery = deliverInbound /\ c.ret # ReplyOK)
                          => (out' = <<c.ret>> /\ UNCHANGED <<rcptTo, state>>)
                     /\ delivery = deliverOutbound => out' = <<ReplyOK>>
                     /\ out' = <<ReplyOK>>
                          => /\ rcptTo' = rcptTo \o <<address.Address>>
                             /\ state' = stateRecipient]_vars

\* C7's case: an Outbound transaction took a recipient VerifyAddress rejected,
\* a second time.
C7_Witness ==
    /\ line \in RCPTLines
    /\ delivery = deliverOutbound
    /\ Len(rcptTo) = 2
    /\ rcptTo[1] = rcptTo[2]
    /\ \E c \in CallsOf("VerifyAddress") : c.ret # ReplyOK
    /\ out = <<ReplyOK>>

\* C8: without TLS every AUTH is answered 503, and once Authenticate has
\* returned true every AUTH is answered 503, calls Authenticate no more and
\* leaves conn.authc as it is.
C8_AuthAtMostOnce ==
    [][line' \in AUTHLines
          => /\ tls = 0 => out' = <<ReplyBadSequence>>
             /\ authed => /\ Len(out') = 1
                          /\ out'[1].code = 503
                          /\ CallsOfNext("Authenticate") = {}
                          /\ authc' = authc]_vars

\* C9: conn.authc is non-empty exactly when TLS is active and Authenticate has
\* returned true, and Authenticate is only called with TLS active.
C9_AuthcIffAuthenticated ==
    /\ authc # <<>> <=> (tls # 0 /\ authed)
    /\ CallsOf("Authenticate") # {} => tls # 0

\* C10: once conn.tls is set it is never cleared or replaced, and no later
\* STARTTLS is answered 220.
C10_StartTLSAtMostOnce ==
    [][tls # 0
          => /\ tls' = tls
             /\ ~(line' \in STARTTLSLines /\ WroteNext(220))]_vars

\* C11: a STARTTLS is answered 220 only in state Initial, with a TLS
\* configuration, when the last greeting that succeeded was an EHLO; in state
\* Initial after a HELO greeting, or without a TLS configuration, it is
\* answered 500 and changes nothing.
C11_StartTLSOnlyAfterEHLO ==
    [][line' \in STARTTLSLines
          => /\ WroteNext(220)
                  => (state = stateInitial /\ lastGreeting = S_EHLO /\ tlsConfig)
             /\ (state = stateInitial /\ (lastGreeting = S_HELO \/ ~tlsConfig))
                  => /\ out' = <<Reply(500, "unrecognized command")>>
                     /\ UNCHANGED <<state, tls, esmtp, authc, delivery, mailFrom, rcptTo>>]_vars

\* C12: every EHLO and HELO, well-formed or not and in any state, leaves the
\* sender nil, the recipients empty and the delivery Unknown, and leaves
\* conn.tls and conn.authc as they were.
C12_GreetingResetsTransaction ==
    [][line' \in EHLOLines
          => /\ mailFrom' = NilAddr
             /\ rcptTo' = <<>>
             /\ delivery' = deliverUnknown
             /\ tls' = tls
             /\ authc' = authc]_vars

\* C12's case: an authenticated session under TLS sent a HELO or EHLO without
\* a domain while in state Recipient, and the recipients are gone.
C12_Witness ==
    /\ line \in EHLOLines
    /\ state = stateRecipient
    /\ rcptTo = <<>>
    /\ mailFrom.nil
    /\ tls # 0
    /\ authc # <<>>

\* C13: a RSET in any state is answered OK and leaves the session in state
\* Initial with the sender nil, the recipients empty and the delivery Unknown,
\* while conn.tls, conn.authc, conn.esmtp and conn.ehlo stay as they were; a
\* RSET right after a RSET changes no field of the session.
C13_ResetReturnsToInitial ==
    [][line' \in RSETLines
          => /\ out' = <<ReplyOK>>
             /\ pc' = "loop"
             /\ state' = stateInitial
             /\ mailFrom' = NilAddr
             /\ rcptTo' = <<>>
             /\ delivery' = deliverUnknown
             /\ UNCHANGED <<tls, authc, esmtp, ehlo>>
             /\ line \in RSETLines
                  => UNCHANGED <<state, mailFrom, rcptTo, delivery, tls, authc, esmtp, ehlo>>]_vars

\* C13's case: a RSET was answered in an authenticated session that had not
\* sent a greeting since its handshake.
C13_Witness ==
    /\ line \in RSETLines
    /\ out = <<ReplyOK>>
    /\ state = stateInitial
    /\ ~greeted
    /\ tls # 0
    /\ authc # <<>>
    /\ ehlo # <<>>

\* The 354 prompt of doDATA and its answer to a failed read of the message.
DataPrompt == Reply(354, "Start mail input; end with <CRLF>.<CRLF>")
DataReadFailed == <<DataPrompt, Reply(552, "transaction failed")>>

\* Whether a send-as tag stands anywhere in the message.
HasSendAsTag(d) == \E i \in 0..Len(d) : SendAsMatchAt(d, i) # <<>>

\* The step of a DATA that closes a transaction whose MAIL is in force: the
\* message was read and the collaborator took it. One envelope goes to the one
\* collaborator of the delivery, with the recipients as conn.rcptTo lists them
\* and a sender that senderOK allows; the transaction is cleared, the state is
\* Initial and the answer is OK. The recipient list only grows by the address
\* of an accepted RCPT, at its end, and only shrinks to the empty list.
DataClosesTransaction(senderOK(_)) ==
    /\ (/\ line' \in DATALines
        /\ state = stateRecipient
        /\ ~mailFrom.nil
        /\ out' # DataReadFailed
        /\ \A c \in CallsOfNext("DeliverMessage") : c.ret = NoReply)
         => /\ Len(calls') = 1
            /\ delivery \in {deliverInbound, deliverOutbound}
            /\ calls'[1].fn = (IF delivery = deliverInbound
                               THEN "DeliverMessage" ELSE "RelayMessage")
            /\ senderOK(calls'[1].env.MailFrom)
            /\ calls'[1].env.RcptTo = rcptTo
            /\ Len(rcptTo) >= 1
            /\ mailFrom' = NilAddr
            /\ rcptTo' = <<>>
            /\ delivery' = deliverUnknown
            /\ state' = stateInitial
            /\ out' = <<DataPrompt, ReplyOK>>
    /\ rcptTo' # rcptTo
         => \/ rcptTo' = <<>>
            \/ /\ line' \in RCPTLines
               /\ rcptTo' = Append(rcptTo, RcptPaths[line'].address.Address)

\* C14 as stated: the envelope of a DATA that closes a legal transaction
\* carries the sender of the MAIL command, whatever the delivery.
C14_EnvelopeCarriesMailSender ==
    [][LET senderOK(from) == from = mailFrom.Address
       IN  DataClosesTransaction(senderOK)]_vars

\* C14, amended: the envelope carries the sender of the MAIL command, except
\* that the envelope of an Outbound transaction whose message holds a send-as
\* tag may carry an address of the authenticated identity's domain instead.
C14_EnvelopeCarriesMailOrSendAsSender ==
    [][LET senderOK(from) ==
               \/ from = mailFrom.Address
               \/ /\ delivery = deliverOutbound
                  /\ HasSendAsTag(data')
                  /\ DomainForAddressString(from) = DomainForAddressString(authc)
       IN  DataClosesTransaction(senderOK)]_vars

\* C14's case: a DATA handed DeliverMessage an envelope with two different
\* recipients of one transaction and closed the transaction.
C14_Witness ==
    /\ line \in DATALines
    /\ out = <<DataPrompt, ReplyOK>>
    /\ state = stateInitial
    /\ rcptTo = <<>>
    /\ mailFrom.nil
    /\ \E c \in CallsOf("DeliverMessage") :
           /\ Len(c.env.RcptTo) = 2
           /\ c.env.RcptTo[1] # c.env.RcptTo[2]
           /\ c.env.MailFrom # <<>>

\* C15: when DeliverMessage rejects the message of an Inbound DATA, its reply
\* goes to the client as it is, after the 354 prompt and with no OK; the state
\* stays Recipient and the sender, the recipients and the delivery stay as they
\* were; and a DATA that follows is taken again: it is prompted for and, once
\* read, handed to DeliverMessage.
C15_RejectedDeliveryKeepsTransaction ==
    [][/\ \A c \in CallsOfNext("DeliverMessage") :
              (line' \in DATALines /\ c.ret # NoReply)
                => /\ out' = <<DataPrompt, c.ret>>
                   /\ \A i \in 1..Len(out') : out'[i] # ReplyOK
                   /\ state' = stateRecipient
                   /\ pc' = "loop"
                   /\ UNCHANGED <<state, mailFrom, rcptTo, delivery>>
       /\ (/\ line \in DATALines
           /\ \E c \in CallsOf("DeliverMessage") : c.ret # NoReply
           /\ line' \in DATALines)
            => /\ out'[1] = DataPrompt
               /\ out' # DataReadFailed => CallsOfNext("DeliverMessage") # {}]_vars

\* C15's case: DeliverMessage rejected a message for two recipients, and the
\* transaction is still in place.
C15_Witness ==
    /\ line \in DATALines
    /\ out = <<DataPrompt, Reply(552, "mailbox full")>>
    /\ \E c \in CallsOf("DeliverMessage") : c.ret = Reply(552, "mailbox full")
    /\ state = stateRecipient
    /\ delivery = deliverInbound
    /\ ~mailFrom.nil
    /\ Len(rcptTo) = 2

\* C16: a MAIL, RCPT, AUTH, EHLO or HELO line that is answered with a syntax
\* error, 500 or 501, leaves the connection open and the state, the delivery,
\* the sender, the recipients, conn.tls and conn.authc as they were.
C16_SyntaxErrorChangesNothing ==
    [][(/\ line' \in EHLOLines \cup MAILLines \cup RCPTLines \cup AUTHLines
        /\ Len(out') >= 1
        /\ out'[Len(out')].code \in {500, 501})
          => /\ pc' = "loop"
             /\ UNCHANGED <<state, delivery, mailFrom, rcptTo, tls, authc>>]_vars

\* The header block of a message as the claims read it: the lines before the
\* first empty line, each with its newline; <<>> when there is no empty line.
HeaderLines(d) ==
    LET end == Index(d, <<"\n", "\n">>)
    IN  IF end = -1 THEN <<>>
        ELSE SelectSeq(SplitAfter(Slice(d, 0, end + 1), "\n"), LAMBDA h : h # <<>>)

\* The positions of the header lines that start with this name.
HeadersNamed(d, name) ==
    {i \in 1..Len(HeaderLines(d)) : HasPrefix(HeaderLines(d)[i], name)}

\* The send-as rewrite as the claims state it, for a message relayed for an
\* identity of this domain: the first From: and the first Subject: line are
\* the ones used; when the Subject carries a tag, the tag is cut out of it and
\* the address between the angle brackets of the From line, and the sender,
\* become the tag's local part at the domain; every other line and the body
\* stay. Without a From: line, a Subject: line or a tag nothing changes.
SendAsExpected(d, sender, domain) ==
    LET lines == HeaderLines(d)
        froms == HeadersNamed(d, S_From)
        subjects == HeadersNamed(d, S_Subject)
        subject == lines[SetMin(subjects)]
        from == lines[SetMin(froms)]
        tag == FindSubmatchIndex(subject)
        address == Slice(subject, tag[3], tag[4]) \o <<"@">> \o domain
        open == LastIndex(from, <<"<">>)
        close == open + Index(Slice(from, open, Len(from)), <<">">>)
        rewritten == [i \in 1..Len(lines) |->
                         IF i = SetMin(subjects)
                         THEN Slice(subject, 0, tag[1]) \o Slice(subject, tag[2], Len(subject))
                         ELSE IF i = SetMin(froms)
                         THEN Slice(from, 0, open + 1) \o address \o Slice(from, close, Len(from))
                         ELSE lines[i]]
    IN  IF froms = {} \/ subjects = {} THEN [Data |-> d, MailFrom |-> sender]
        ELSE IF tag = <<>> THEN [Data |-> d, MailFrom |-> sender]
        ELSE [Data |-> Concat(rewritten)
                          \o Slice(d, Index(d, <<"\n", "\n">>) + 1, Len(d)),
              MailFrom |-> address]

\* C18: the envelope RelayMessage gets for a message with a From: and a
\* Subject: line is the send-as rewrite of the message read, after the trace
\* header, with the rewritten sender; the envelope of a message without a
\* tag, and every envelope DeliverMessage gets, has the message read and the
\* sender of the MAIL command.
C18_SendAsRewrite ==
    [][\A c \in CallsOfNext("RelayMessage") \cup CallsOfNext("DeliverMessage") :
          LET expected == IF c.fn = "RelayMessage"
                          THEN SendAsExpected(data', mailFrom.Address,
                                              DomainForAddressString(authc))
                          ELSE [Data |-> data', MailFrom |-> mailFrom.Address]
          IN  (/\ line' \in DATALines
               /\ \/ c.fn = "DeliverMessage"
                  \/ ~HasSendAsTag(data')
                  \/ HeadersNamed(data', S_From) # {} /\ HeadersNamed(data', S_Subject) # {})
                => /\ c.env.MailFrom = expected.MailFrom
                   /\ c.env.Data = getReceivedInfo(c.env) \o expected.Data]_vars

\* The handshake of the STARTTLS just handled failed: 220 was written and the
\* state is not New, where a handshake that succeeds leaves it.
HandshakeFailed ==
    /\ line \in STARTTLSLines
    /\ out = <<Reply(220, "initiate TLS connection")>>
    /\ state # stateNew

\* C19: after a failed handshake the session ends: no line is handled, no
\* reply is written and no field of the session changes any more.
C19_HandshakeFailureEndsSession ==
    [][HandshakeFailed
          => /\ pc' = "closed"
             /\ out' = <<>>
             /\ calls' = <<>>
             /\ UNCHANGED <<state, tls, authc, delivery, mailFrom, rcptTo, ehlo>>]_vars

\* C20: once a write of a reply has failed the session ends: no line is
\* dispatched, and the state, the delivery, the sender and the recipients
\* change no more; a failed read of a line ends it at once.
C20_TransportFailureEndsSession ==
    [][/\ wrerr
          => /\ pc' = "closed"
             /\ line' = <<>>
             /\ out' = <<>>
             /\ UNCHANGED <<state, delivery, mailFrom, rcptTo>>
       /\ pc = "closed" => UNCHANGED vars]_vars

\* C17: a QUIT in any state is answered 221 Goodbye, and after it the loop
\* has ended: no line is read, no handler runs and no reply is written, so no
\* step follows the one that handled the QUIT.
C17_QuitEndsSession ==
    [][/\ line' \in QUITLines => out' = <<Reply(221, "Goodbye")>>
       /\ line \notin QUITLines]_vars

\* C21: when the header block of the message of an Outbound transaction has
\* no From: line or no Subject: line, RelayMessage gets the message as it was
\* read, after the trace header, and the sender of the MAIL command, whatever
\* the other header lines hold.
C21_NoRewriteWithoutFromOrSubject ==
    [][\A c \in CallsOfNext("RelayMessage") :
          (/\ line' \in DATALines
           /\ \/ HeadersNamed(data', S_From) = {}
              \/ HeadersNamed(data', S_Subject) = {})
            => /\ c.env.MailFrom = mailFrom.Address
               /\ c.env.Data = getReceivedInfo(c.env) \o data']_vars

\* C22: a DATA is answered OK only when its envelope went to a collaborator in
\* the same turn: the delivery was not Unknown, and DeliverMessage returned no
\* rejection for an Inbound transaction, or RelayMessage was called for an
\* Outbound one.
C22_OkOnlyAfterHandOver ==
    [][(/\ line' \in DATALines
        /\ \E i \in 1..Len(out') : out'[i] = ReplyOK)
          => /\ delivery # deliverUnknown
             /\ delivery = deliverInbound
                  => \E c \in CallsOfNext("DeliverMessage") : c.ret = NoReply
             /\ delivery = deliverOutbound
                  => CallsOfNext("RelayMessage") # {}]_vars

\* C22's case: a DATA was answered OK after RelayMessage got a message that
\* send-as left as it was read.
C22_Witness ==
    /\ line \in DATALines
    /\ out = <<DataPrompt, ReplyOK>>
    /\ data = D_Plain
    /\ \E c \in CallsOf("RelayMessage") : c.env.MailFrom = authc
    /\ delivery = deliverUnknown
    /\ state = stateInitial

====
